---------------------------- MODULE Spec2Model ----------------------------
(***************************************************************************)
(* The PN5180 reader firmware (sketch/pn5180_reader/pn5180_reader.ino):    *)
(* the RPC commands, the SPI handshake of send_spi_data / recv_spi_data,   *)
(* the bounded polling of wait_busy_is and wait_for_irq, and the front-end *)
(* that drives the BUSY, IRQ and MISO inputs.                              *)
(*                                                                         *)
(* Pin levels are 0 (LOW) and 1 (HIGH).  A byte is a number 0..255.  A     *)
(* uint32_t is the pair <<hi, lo>> of its 16-bit halves, so that every     *)
(* value up to 0xFFFFFFFF is representable by the model checker.           *)
(***************************************************************************)
EXTENDS Integers, Sequences, FiniteSets, TLC

(***************************************************************************)
(* Bounds of the model.                                                    *)
(***************************************************************************)
\* millis() is an unsigned long that wraps; the model's clock wraps at
\* ClockMod ticks (the largest unsigned long is ClockMod - 1).
ClockMod == 4
\* One clock tick of the model stands for MsPerTick milliseconds.
MsPerTick == 400
\* Vector arguments are tried at sizes up to Slack past every limit.
Slack == 1

(***************************************************************************)
(* Program constants.                                                      *)
(***************************************************************************)
PN5180_WRITE_REGISTER == 0
PN5180_WRITE_REGISTER_OR_MASK == 1
PN5180_WRITE_REGISTER_AND_MASK == 2
PN5180_WRITE_REGISTER_MULTIPLE == 3
PN5180_READ_REGISTER == 4
PN5180_READ_REGISTER_MULTIPLE == 5
PN5180_WRITE_EEPROM == 6
PN5180_READ_EEPROM == 7
PN5180_WRITE_TX_DATA == 8
PN5180_SEND_DATA == 9
PN5180_READ_DATA == 10
PN5180_SWITCH_MODE == 11
PN5180_MIFARE_AUTHENTICATE == 12
PN5180_EPC_INVENTORY == 13
PN5180_EPC_RESUME_INVENTORY == 14
PN5180_EPC_RETRIEVE_INVENTORY_RESULT_SIZE == 15
PN5180_LOAD_RF_CONFIG == 17
PN5180_RF_ON == 22
PN5180_RF_OFF == 23

LOW == 0
HIGH == 1

\* wait_busy_is(PinStatus value, const unsigned long timeout = 800)
DEFAULT_TIMEOUT_MS == 800
DefaultTimeout == DEFAULT_TIMEOUT_MS \div MsPerTick
\* the largest value of an unsigned long, in the model's clock
ULONG_MAX == ClockMod - 1

\* uint8_t buffer[256] of send_spi_data
SEND_BUFFER_SIZE == 256

\* Declared lengths of the commands' local buffers.
WRM_BUFFER_SIZE == 211
RRM_BUFFER_SIZE == 211
WRITE_EEPROM_BUFFER_SIZE == 256
READ_EEPROM_BUFFER_SIZE == 255
WRITE_TX_BUFFER_SIZE == 261
SEND_DATA_BUFFER_SIZE == 262
READ_DATA_BUFFER_SIZE == 508
SWITCH_MODE_BUFFER_SIZE == 6
EPC_BUFFER_SIZE == 47

\* The size limits the commands check.
WRM_MAX_ELEMENTS == 42
RRM_MAX_ADDRS == 18
WRITE_EEPROM_MAX == 255
WRITE_TX_MAX == 260
SEND_DATA_MAX == 260
SWITCH_MODE_MAX_PARAMS == 4
EPC_MAX_SELECT == 39

(***************************************************************************)
(* Bytes, 32-bit values and vectors.                                       *)
(***************************************************************************)
Byte == 0..255

\* (uint8_t)(value >> shift) for shift in {0, 8, 16, 24}
ShiftByte(value, shift) ==
  CASE shift = 0  -> value[2] % 256
    [] shift = 8  -> (value[2] \div 256) % 256
    [] shift = 16 -> value[1] % 256
    [] shift = 24 -> (value[1] \div 256) % 256

\* The initializer list  value, value >> 8, value >> 16, value >> 24
ValueBytes(value) ==
  << ShiftByte(value, 0), ShiftByte(value, 8), ShiftByte(value, 16), ShiftByte(value, 24) >>

\* The uint32_t whose storage holds the bytes b[1..4] (little-endian core).
ValueOfBytes(b) == << b[3] + 256 * b[4], b[1] + 256 * b[2] >>

\* memset(buffer, 0xff, buffer_len)
Filled(n) == [i \in 1..n |-> 255]

\* A vector of n bytes; its elements differ from their neighbours.
Vec(n, seed) == [i \in 1..n |-> (seed + i) % 256]

\* The 32-bit values the commands are tried with.
ValueSamples == { <<0, 0>>, <<258, 772>>, <<65535, 65534>> }
AddrSamples == { 0, 37 }

\* Element i of a Vector<Object<uint8_t, uint8_t, uint32_t>> argument.
Element(i, seed) ==
  [addr |-> (seed + i) % 256, op |-> 1 + (i % 3), value |-> << (seed * 256 + i) % 65536, (i * 256 + seed) % 65536 >>]


(***************************************************************************)
(* State.                                                                  *)
(***************************************************************************)
VARIABLES
  pc,       \* where the firmware is: "idle" (interface() waits for an RPC call), a
            \* step of send_spi_data / recv_spi_data / wait_for_irq, "returned"
            \* (the command returned to interface()), or "fault"
  wpc,      \* where wait_busy_is is: "none", "loop", "final", "ret"
  cmd,      \* the RPC command running, or the last one run
  arg,      \* its arguments
  frame,    \* the bytes the command hands to send_spi_data
  rx,       \* the buffer recv_spi_data fills
  sret,     \* the value send_spi_data / recv_spi_data returned last
  retval,   \* the status the command returned to the host
  result,   \* the data the command returned to the host
  nss,      \* the level driven on PN5180_NSS
  busy,     \* the level the front-end drives on PN5180_BUSY
  irq,      \* the level the front-end drives on PN5180_IRQ
  now,      \* millis()
  start,    \* the local start of wait_busy_is / wait_for_irq
  wval,     \* the level wait_busy_is waits for
  seen,     \* history: whether BUSY was at the level waited for since the running
            \* wait began: "never", "within" its bound, or only "late", after the
            \* bound had passed
  wres,     \* what wait_busy_is returned
  fe,       \* the kind of front-end attached: "free", "stuck", "sim"
  regs,     \* the simulated front-end's register file
  reply,    \* the bytes the simulated front-end answers the next read with
  ev,       \* history: the events of the running handshake, in order: "BL" / "BH"
            \* (the sample of BUSY that ended a wait found it low / high), "TO" (a
            \* wait ended with BUSY not at the level waited for), "SEL" / "DESEL"
            \* (NSS driven low / high), "XFER" (PN_SPI.transfer)
  wire,     \* history: the frames transferred on MOSI by the running command
  miso,     \* history: the byte sequences received on MISO by the running command
  waits,    \* history: calls of wait_busy_is by the running command
  failed,   \* history: handshake phases of the running command that timed out
  nsswrites,\* history: digitalWrite(PN5180_NSS, ..) calls of the running command
  maxidx,   \* history: largest index the command wrote in its local buffer
  smashed,  \* history: the command wrote past the end of its local buffer
  prev      \* history: the previous command, its arguments and its status

vars == << pc, wpc, cmd, arg, frame, rx, sret, retval, result, nss, busy, irq, now,
           start, wval, seen, wres, fe, regs, reply, ev, wire, miso, waits, failed,
           nsswrites, maxidx, smashed, prev >>

pins == << nss, busy, irq >>
clock == << now, start, wval, seen, wres, wpc >>
frontend == << fe, regs, reply >>
history == << ev, wire, miso, waits, failed, nsswrites >>

NoArg == << 0, 0, 0, 0, <<0, 0>> >>
NoPrev == << "none", NoArg, 0 >>

\* The state after setup(): NSS driven high, no command run yet.  The
\* front-end's inputs and the clock are whatever they are at that moment.
InitFirmware ==
  /\ pc = "idle" /\ wpc = "none" /\ cmd = "none" /\ arg = NoArg
  /\ frame = <<>> /\ rx = <<>> /\ sret = 0 /\ retval = 0 /\ result = <<>>
  /\ nss = HIGH
  /\ now \in 0..(ClockMod - 1) /\ start = 0 /\ wval = LOW /\ seen = "never" /\ wres = FALSE
  /\ ev = <<>> /\ wire = <<>> /\ miso = <<>> /\ waits = 0 /\ failed = {}
  /\ nsswrites = 0 /\ maxidx = -1 /\ smashed = FALSE /\ prev = NoPrev
  /\ regs = [a \in AddrSamples |-> <<0, 0, 0, 0>>] /\ reply = <<>>

(***************************************************************************)
(* wait_busy_is                                                            *)
(***************************************************************************)
\* millis() - start, in unsigned long arithmetic
Elapsed(t, s) == (t - s + ClockMod) % ClockMod

\* The history's name of a sample of BUSY that found the level waited for.
Sample(level) == IF level = HIGH THEN "BH" ELSE "BL"

\* The call wait_busy_is(value), the count-th of the command:
\* auto start = millis();
BeginWait(value, count) ==
  /\ start' = now
  /\ wval' = value
  /\ seen' = IF busy = value THEN "within" ELSE "never"
  /\ wpc' = "loop"
  /\ waits' = count
  /\ UNCHANGED << now, wres >>

\* The front-end answers within the bound: while a simulated front-end owes a
\* change of BUSY, the clock does not run past the caller's timeout.
SimBusyTarget == IF nss = LOW /\ pc \in {"send_check2", "recv_check2"} THEN HIGH ELSE LOW
TickAllowed(dt) ==
  (fe = "sim" /\ busy # SimBusyTarget) => Elapsed(now, start) + dt <= DefaultTimeout

\* The loop condition (millis() - start) <= timeout
WithinTimeout(t, s, timeout) == Elapsed(t, s) <= timeout

\* A slip: inside the bound the loop reports success without comparing BUSY
\* with the level waited for.
wait_busy_is_loop_blind(dt) ==
  /\ wpc = "loop"
  /\ pc \notin {"irq_loop", "irq_final"}
  /\ TickAllowed(dt)
  /\ now' = (now + dt) % ClockMod
  /\ IF WithinTimeout(now', start, DefaultTimeout)
       THEN wres' = TRUE /\ wpc' = "ret" /\ ev' = Append(ev, Sample(wval))
       ELSE /\ wpc' = "final"
            /\ UNCHANGED << ev, wres >>
  /\ UNCHANGED << pc, cmd, arg, frame, rx, sret, retval, result, pins, start, wval, seen,
                  frontend, wire, miso, waits, failed, nsswrites, maxidx, smashed, prev >>

\* One evaluation of the loop condition and, inside the bound, of the loop
\* body.  dt is the time that passed since the previous evaluation.
wait_busy_is_loop(dt) ==
  /\ wpc = "loop"
  /\ pc \notin {"irq_loop", "irq_final"}
  /\ TickAllowed(dt)
  /\ now' = (now + dt) % ClockMod
  /\ IF WithinTimeout(now', start, DefaultTimeout)
       THEN IF busy = wval
              THEN wres' = TRUE /\ wpc' = "ret" /\ ev' = Append(ev, Sample(busy))
              ELSE UNCHANGED << wres, wpc, ev >>
       ELSE /\ wpc' = "final"
            /\ UNCHANGED << ev, wres >>
  /\ UNCHANGED << pc, cmd, arg, frame, rx, sret, retval, result, pins, start, wval, seen,
                  frontend, wire, miso, waits, failed, nsswrites, maxidx, smashed, prev >>

\* A slip: once the bound has passed the wait reports failure without a
\* last look at BUSY.
wait_busy_is_final_false ==
  /\ wpc = "final"
  /\ pc \notin {"irq_loop", "irq_final"}
  /\ wres' = FALSE
  /\ wpc' = "ret"
  /\ ev' = Append(ev, "TO")
  /\ UNCHANGED << pc, cmd, arg, frame, rx, sret, retval, result, pins, now, start, wval, seen,
                  frontend, wire, miso, waits, failed, nsswrites, maxidx, smashed, prev >>

\* return digitalRead(PN5180_BUSY) == value;
wait_busy_is_final ==
  /\ wpc = "final"
  /\ pc \notin {"irq_loop", "irq_final"}
  /\ wres' = (busy = wval)
  /\ wpc' = "ret"
  /\ ev' = Append(ev, IF busy = wval THEN Sample(busy) ELSE "TO")
  /\ UNCHANGED << pc, cmd, arg, frame, rx, sret, retval, result, pins, now, start, wval, seen,
                  frontend, wire, miso, waits, failed, nsswrites, maxidx, smashed, prev >>


(***************************************************************************)
(* The front-end on the SPI bus.                                           *)
(***************************************************************************)
\* What a front-end does with a frame clocked in on MOSI.  The simulated
\* front-end stores the four value bytes of a WRITE_REGISTER under its
\* address and answers a READ_REGISTER with the bytes stored there.
FrontEndReceives(data) ==
  IF fe = "sim" /\ Len(data) = 6 /\ data[1] = PN5180_WRITE_REGISTER /\ data[2] \in DOMAIN regs
    THEN /\ regs' = [regs EXCEPT ![data[2]] = SubSeq(data, 3, 6)]
         /\ UNCHANGED << fe, reply >>
    ELSE IF fe = "sim" /\ Len(data) = 2 /\ data[1] = PN5180_READ_REGISTER /\ data[2] \in DOMAIN regs
      THEN /\ reply' = regs[data[2]]
           /\ UNCHANGED << fe, regs >>
      ELSE UNCHANGED << fe, regs, reply >>

\* The byte sequences a front-end may clock out on MISO for a read of n bytes.
MisoSeeds == { 0, 1, 2, 255 }
FrontEndSends(n) ==
  IF fe = "sim"
    THEN { [i \in 1..n |-> IF i <= Len(reply) THEN reply[i] ELSE 0] }
    ELSE { [i \in 1..n |-> (s + i - 1) % 256] : s \in MisoSeeds }

(***************************************************************************)
(* send_spi_data                                                           *)
(***************************************************************************)
\* Entry of send_spi_data(data, data_len): the length check, the copy and
\* the call of the first wait_busy_is(LOW).
send_spi_data_enter(data) ==
  /\ ev' = <<>>
  /\ IF Len(data) > SEND_BUFFER_SIZE
       THEN /\ sret' = -1
            /\ pc' = "send_done"
            /\ UNCHANGED << waits, clock >>
       ELSE /\ pc' = "send_check1"
            /\ BeginWait(LOW, waits + 1)
            /\ UNCHANGED sret

\* A slip: the result of the first busy check is ignored and select is
\* asserted whatever BUSY was.
send_spi_data_first_check_ignored ==
  /\ pc = "send_check1" /\ wpc = "ret"
  /\ wpc' = "none"
  /\ nss' = LOW
  /\ nsswrites' = nsswrites + 1
  /\ ev' = Append(ev, "SEL")
  /\ pc' = "send_xfer"
  /\ UNCHANGED << sret, failed >>
  /\ UNCHANGED << cmd, arg, frame, rx, retval, result, busy, irq, now, start, wval, seen, wres,
                  frontend, wire, miso, waits, maxidx, smashed, prev >>

\* if (!wait_busy_is(LOW)) return -2;  digitalWrite(PN5180_NSS, LOW); delay(5);
send_spi_data_first_check ==
  /\ pc = "send_check1" /\ wpc = "ret"
  /\ wpc' = "none"
  /\ IF ~wres
       THEN /\ sret' = -2
            /\ pc' = "send_done"
            /\ failed' = failed \cup {"send1"}
            /\ UNCHANGED << nss, ev, nsswrites >>
       ELSE /\ nss' = LOW
            /\ nsswrites' = nsswrites + 1
            /\ ev' = Append(ev, "SEL")
            /\ pc' = "send_xfer"
            /\ UNCHANGED << sret, failed >>
  /\ UNCHANGED << cmd, arg, frame, rx, retval, result, busy, irq, now, start, wval, seen, wres,
                  frontend, wire, miso, waits, maxidx, smashed, prev >>

\* A slip: the frame is clocked out twice under one select.
send_spi_data_transfer_twice ==
  /\ pc = "send_xfer"
  /\ wire' = Append(Append(wire, frame), frame)
  /\ FrontEndReceives(frame)
  /\ ev' = Append(ev, "XFER")
  /\ pc' = "send_check2"
  /\ BeginWait(HIGH, waits + 1)
  /\ UNCHANGED << cmd, arg, frame, rx, sret, retval, result, pins, miso, failed,
                  nsswrites, maxidx, smashed, prev >>

\* A slip: select is released right after the transfer, before BUSY is
\* waited high.
send_spi_data_transfer_released ==
  /\ pc = "send_xfer"
  /\ wire' = Append(wire, frame)
  /\ FrontEndReceives(frame)
  /\ ev' = ev \o << "XFER", "DESEL" >>
  /\ nss' = HIGH
  /\ nsswrites' = nsswrites + 1
  /\ pc' = "send_check2"
  /\ BeginWait(HIGH, waits + 1)
  /\ UNCHANGED << cmd, arg, frame, rx, sret, retval, result, busy, irq, miso, failed,
                  maxidx, smashed, prev >>

\* PN_SPI.beginTransaction(..); PN_SPI.transfer(buffer, data_len);
\* and the call of wait_busy_is(HIGH)
send_spi_data_transfer ==
  /\ pc = "send_xfer"
  /\ wire' = Append(wire, frame)
  /\ FrontEndReceives(frame)
  /\ ev' = Append(ev, "XFER")
  /\ pc' = "send_check2"
  /\ BeginWait(HIGH, waits + 1)
  /\ UNCHANGED << cmd, arg, frame, rx, sret, retval, result, pins, miso, failed,
                  nsswrites, maxidx, smashed, prev >>

\* retval = wait_busy_is(HIGH) ? 0 : -3;  PN_SPI.endTransaction();
\* digitalWrite(PN5180_NSS, HIGH);  and, when retval is 0, the call of the
\* third wait_busy_is(LOW)
send_spi_data_second_check ==
  /\ pc = "send_check2" /\ wpc = "ret"
  /\ nss' = HIGH
  /\ nsswrites' = nsswrites + 1
  /\ ev' = Append(ev, "DESEL")
  /\ IF ~wres
       THEN /\ sret' = -3
            /\ pc' = "send_done"
            /\ failed' = failed \cup {"send2"}
            /\ wpc' = "none"
            /\ UNCHANGED << now, start, wval, seen, wres, waits >>
       ELSE /\ pc' = "send_check3"
            /\ BeginWait(LOW, waits + 1)
            /\ UNCHANGED << sret, failed >>
  /\ UNCHANGED << cmd, arg, frame, rx, retval, result, busy, irq, frontend, wire, miso,
                  maxidx, smashed, prev >>

\* A slip: a failed third busy check reports the code of the second.
send_spi_data_third_check_as_second ==
  /\ pc = "send_check3" /\ wpc = "ret"
  /\ wpc' = "none"
  /\ sret' = IF wres THEN 0 ELSE -3
  /\ failed' = IF wres THEN failed ELSE failed \cup {"send3"}
  /\ pc' = "send_done"
  /\ UNCHANGED << cmd, arg, frame, rx, retval, result, pins, now, start, wval, seen, wres,
                  frontend, ev, wire, miso, waits, nsswrites, maxidx, smashed, prev >>

\* if (!retval && !wait_busy_is(LOW)) retval = -4;  return retval;
send_spi_data_third_check ==
  /\ pc = "send_check3" /\ wpc = "ret"
  /\ wpc' = "none"
  /\ sret' = IF wres THEN 0 ELSE -4
  /\ failed' = IF wres THEN failed ELSE failed \cup {"send3"}
  /\ pc' = "send_done"
  /\ UNCHANGED << cmd, arg, frame, rx, retval, result, pins, now, start, wval, seen, wres,
                  frontend, ev, wire, miso, waits, nsswrites, maxidx, smashed, prev >>

(***************************************************************************)
(* recv_spi_data                                                           *)
(***************************************************************************)
\* Entry of recv_spi_data(buffer, buffer_len): the memset and the call of the
\* first wait_busy_is(LOW).
recv_spi_data_enter(buffer_len) ==
  /\ rx' = Filled(buffer_len)
  /\ ev' = <<>>
  /\ pc' = "recv_check1"
  /\ BeginWait(LOW, waits + 1)

\* if (!wait_busy_is(LOW)) return -1;  digitalWrite(PN5180_NSS, LOW); delay(5);
recv_spi_data_first_check ==
  /\ pc = "recv_check1" /\ wpc = "ret"
  /\ wpc' = "none"
  /\ IF ~wres
       THEN /\ sret' = -1
            /\ pc' = "recv_done"
            /\ failed' = failed \cup {"recv1"}
            /\ UNCHANGED << nss, ev, nsswrites >>
       ELSE /\ nss' = LOW
            /\ nsswrites' = nsswrites + 1
            /\ ev' = Append(ev, "SEL")
            /\ pc' = "recv_xfer"
            /\ UNCHANGED << sret, failed >>
  /\ UNCHANGED << cmd, arg, frame, rx, retval, result, busy, irq, now, start, wval, seen, wres,
                  frontend, wire, miso, waits, maxidx, smashed, prev >>

\* PN_SPI.beginTransaction(..); PN_SPI.transfer(buffer, buffer_len);
\* and the call of wait_busy_is(HIGH)
recv_spi_data_transfer ==
  /\ pc = "recv_xfer"
  /\ \E bytes \in FrontEndSends(Len(rx)) :
       /\ rx' = bytes
       /\ miso' = Append(miso, bytes)
  /\ ev' = Append(ev, "XFER")
  /\ pc' = "recv_check2"
  /\ BeginWait(HIGH, waits + 1)
  /\ UNCHANGED << cmd, arg, frame, sret, retval, result, pins, frontend, wire, failed,
                  nsswrites, maxidx, smashed, prev >>

\* A slip: a failed second busy check returns at once, as the first does,
\* and leaves select asserted.
recv_spi_data_second_check_returns ==
  /\ pc = "recv_check2" /\ wpc = "ret"
  /\ IF ~wres
       THEN /\ sret' = -2
            /\ pc' = "recv_done"
            /\ failed' = failed \cup {"recv2"}
            /\ wpc' = "none"
            /\ UNCHANGED << nss, nsswrites, ev, now, start, wval, seen, wres, waits >>
       ELSE /\ nss' = HIGH
            /\ nsswrites' = nsswrites + 1
            /\ ev' = Append(ev, "DESEL")
            /\ pc' = "recv_check3"
            /\ BeginWait(LOW, waits + 1)
            /\ UNCHANGED << sret, failed >>
  /\ UNCHANGED << cmd, arg, frame, rx, retval, result, busy, irq, frontend, wire, miso,
                  maxidx, smashed, prev >>

\* retval = wait_busy_is(HIGH) ? 0 : -2;  PN_SPI.endTransaction();
\* digitalWrite(PN5180_NSS, HIGH);  and, when retval is 0, the call of the
\* third wait_busy_is(LOW)
recv_spi_data_second_check ==
  /\ pc = "recv_check2" /\ wpc = "ret"
  /\ nss' = HIGH
  /\ nsswrites' = nsswrites + 1
  /\ ev' = Append(ev, "DESEL")
  /\ IF ~wres
       THEN /\ sret' = -2
            /\ pc' = "recv_done"
            /\ failed' = failed \cup {"recv2"}
            /\ wpc' = "none"
            /\ UNCHANGED << now, start, wval, seen, wres, waits >>
       ELSE /\ pc' = "recv_check3"
            /\ BeginWait(LOW, waits + 1)
            /\ UNCHANGED << sret, failed >>
  /\ UNCHANGED << cmd, arg, frame, rx, retval, result, busy, irq, frontend, wire, miso,
                  maxidx, smashed, prev >>

\* if (!retval && !wait_busy_is(LOW)) retval = -3;  return retval;
recv_spi_data_third_check ==
  /\ pc = "recv_check3" /\ wpc = "ret"
  /\ wpc' = "none"
  /\ sret' = IF wres THEN 0 ELSE -3
  /\ failed' = IF wres THEN failed ELSE failed \cup {"recv3"}
  /\ pc' = "recv_done"
  /\ UNCHANGED << cmd, arg, frame, rx, retval, result, pins, now, start, wval, seen, wres,
                  frontend, ev, wire, miso, waits, nsswrites, maxidx, smashed, prev >>


(***************************************************************************)
(* The RPC commands: what the arguments are drawn from.                    *)
(***************************************************************************)
Seeds == { 0, 101 }
Around(limit) == (limit - Slack)..(limit + Slack)
Sizes(limit) == { 0, 1 } \cup Around(limit)
Arg(n, seed, a, b, v) == << n, seed, a, b, v >>
ArgN(x) == x[1]
ArgSeed(x) == x[2]
ArgA(x) == x[3]
ArgB(x) == x[4]
ArgV(x) == x[5]

\* interface() in loop() takes a command off the serial link and calls it.
Begin(name, a) ==
  /\ pc = "idle"
  /\ cmd' = name
  /\ arg' = a
  /\ UNCHANGED << pins, frontend, rx, wire, miso, failed, nsswrites, prev >>

\* The command returns at its size check, before it touches the bus.
Reject(name, a, status) ==
  /\ Begin(name, a)
  /\ retval' = status
  /\ pc' = "returned"
  /\ UNCHANGED << frame, maxidx, smashed, ev, waits, sret, result, clock >>

\* The command fills a local buffer of bufsize bytes up to index lastidx and
\* calls send_spi_data on the first Len(data) bytes of it.
Send(name, a, data, lastidx, bufsize) ==
  /\ Begin(name, a)
  /\ frame' = data
  /\ maxidx' = lastidx
  /\ smashed' = (lastidx >= bufsize)
  /\ UNCHANGED << retval, result >>
  /\ send_spi_data_enter(data)

\* The command returns status and data to interface().  A command that wrote
\* past the end of its stack buffer has undefined behaviour: its return may
\* go through (nothing live was overwritten) or fault (the saved registers
\* or the return address were).
Return(status, data) ==
  /\ retval' = status
  /\ result' = data
  /\ pc' \in (IF smashed THEN {"returned", "fault"} ELSE {"returned"})

(***************************************************************************)
(* Commands that only send.                                                *)
(***************************************************************************)
\* A slip: the value is framed most-significant byte first.
RegisterCmd_msb_first(opcode, addr, value) ==
  << opcode, addr, ShiftByte(value, 24), ShiftByte(value, 16), ShiftByte(value, 8),
     ShiftByte(value, 0) >>

\* uint8_t cmd[] = {PN5180_WRITE_REGISTER, addr, value, value >> 8, value >> 16, value >> 24};
RegisterCmd(opcode, addr, value) == << opcode, addr >> \o ValueBytes(value)

write_register(addr, value) ==
  LET data == RegisterCmd(PN5180_WRITE_REGISTER, addr, value)
  IN Send("write_register", Arg(0, 0, addr, 0, value), data, Len(data) - 1, Len(data))

\* A slip: the OR-mask write is framed with the opcode of the plain write.
write_register_or_mask_plain(addr, value) ==
  LET data == RegisterCmd(PN5180_WRITE_REGISTER, addr, value)
  IN Send("write_register_or_mask", Arg(0, 0, addr, 0, value), data, Len(data) - 1, Len(data))

write_register_or_mask(addr, value) ==
  LET data == RegisterCmd(PN5180_WRITE_REGISTER_OR_MASK, addr, value)
  IN Send("write_register_or_mask", Arg(0, 0, addr, 0, value), data, Len(data) - 1, Len(data))

write_register_and_mask(addr, value) ==
  LET data == RegisterCmd(PN5180_WRITE_REGISTER_AND_MASK, addr, value)
  IN Send("write_register_and_mask", Arg(0, 0, addr, 0, value), data, Len(data) - 1, Len(data))

\* The bytes the loop of write_register_multiple stores for n elements:
\* buffer[0] is the opcode, buffer[1 + i * 6 .. 6 + i * 6] is element i.
WrmBuffer(n, seed) ==
  [k \in 1..(1 + 6 * n) |->
     IF k = 1 THEN PN5180_WRITE_REGISTER_MULTIPLE
     ELSE LET i == (k - 2) \div 6
              f == (k - 2) % 6
              e == Element(i, seed)
          IN CASE f = 0 -> e.addr
               [] f = 1 -> e.op
               [] OTHER -> ShiftByte(e.value, 8 * (f - 2))]
\* The largest index the loop writes: buffer[6 + (n - 1) * 6], or buffer[0].
WrmLastIndex(n) == IF n = 0 THEN 0 ELSE 6 + (n - 1) * 6

WrmSizes == Sizes(WRM_MAX_ELEMENTS) \cup Around((WRM_BUFFER_SIZE - 1) \div 6)
write_register_multiple(n, seed) ==
  IF n > WRM_MAX_ELEMENTS
    THEN Reject("write_register_multiple", Arg(n, seed, 0, 0, <<0, 0>>), -1)
    ELSE Send("write_register_multiple", Arg(n, seed, 0, 0, <<0, 0>>),
              WrmBuffer(n, seed), WrmLastIndex(n), WRM_BUFFER_SIZE)

\* buffer[0] = PN5180_WRITE_EEPROM; buffer[1 + i] = values[i];
\* send_spi_data(buffer, 1 + values.size)
WriteEepromBuffer(addr, n, seed) == << PN5180_WRITE_EEPROM >> \o Vec(n, seed)
write_eeprom(addr, n, seed) ==
  IF n > WRITE_EEPROM_MAX
    THEN Reject("write_eeprom", Arg(n, seed, addr, 0, <<0, 0>>), -1)
    ELSE Send("write_eeprom", Arg(n, seed, addr, 0, <<0, 0>>),
              WriteEepromBuffer(addr, n, seed), n, WRITE_EEPROM_BUFFER_SIZE)

\* buffer[0] = PN5180_WRITE_TX_DATA; buffer[1 + i] = values[i];
WriteTxBuffer(n, seed) == << PN5180_WRITE_TX_DATA >> \o Vec(n, seed)
WriteTxSizes == Sizes(WRITE_TX_MAX) \cup Around(SEND_BUFFER_SIZE - 1)
write_tx_data(n, seed) ==
  IF n > WRITE_TX_MAX
    THEN Reject("write_tx_data", Arg(n, seed, 0, 0, <<0, 0>>), -1)
    ELSE Send("write_tx_data", Arg(n, seed, 0, 0, <<0, 0>>),
              WriteTxBuffer(n, seed), n, WRITE_TX_BUFFER_SIZE)

\* buffer[0] = PN5180_SEND_DATA; buffer[1] = bits; buffer[2 + i] = values[i];
SendDataBuffer(bits, n, seed) == << PN5180_SEND_DATA, bits >> \o Vec(n, seed)
SendDataSizes == Sizes(SEND_DATA_MAX) \cup Around(SEND_BUFFER_SIZE - 2)
send_data(bits, n, seed) ==
  IF n > SEND_DATA_MAX
    THEN Reject("send_data", Arg(n, seed, bits, 0, <<0, 0>>), -1)
    ELSE Send("send_data", Arg(n, seed, bits, 0, <<0, 0>>),
              SendDataBuffer(bits, n, seed), 1 + n, SEND_DATA_BUFFER_SIZE)

\* buffer[0] = PN5180_SWITCH_MODE; buffer[1] = mode; buffer[2 + i] = params[i];
SwitchModeBuffer(mode, n, seed) == << PN5180_SWITCH_MODE, mode >> \o Vec(n, seed)
switch_mode(mode, n, seed) ==
  IF n > SWITCH_MODE_MAX_PARAMS
    THEN Reject("switch_mode", Arg(n, seed, mode, 0, <<0, 0>>), -1)
    ELSE Send("switch_mode", Arg(n, seed, mode, 0, <<0, 0>>),
              SwitchModeBuffer(mode, n, seed), 1 + n, SWITCH_MODE_BUFFER_SIZE)

\* begin_round[3] of epc_inventory
BeginRound(seed) == Vec(3, seed + 40)
\* A slip: the final-bits byte is framed for an empty select command too.
EpcBuffer_final_bits_always(n, seed, final_bits, timeslot) ==
  << PN5180_EPC_INVENTORY, n, final_bits >> \o Vec(n, seed)
    \o BeginRound(seed) \o << timeslot >>

\* buffer[pos++] = ... : opcode, size, then (final bits, select command) when
\* the select command is not empty, then begin_round[0..2], timeslot_behavior
EpcBuffer(n, seed, final_bits, timeslot) ==
  << PN5180_EPC_INVENTORY, n >>
    \o (IF n # 0 THEN << final_bits >> \o Vec(n, seed) ELSE <<>>)
    \o BeginRound(seed) \o << timeslot >>
epc_inventory(n, seed, final_bits, timeslot) ==
  IF n > EPC_MAX_SELECT
    THEN Reject("epc_inventory", Arg(n, seed, final_bits, timeslot, <<0, 0>>), -1)
    ELSE LET data == EpcBuffer(n, seed, final_bits, timeslot)
         IN Send("epc_inventory", Arg(n, seed, final_bits, timeslot, <<0, 0>>),
                 data, Len(data) - 1, EPC_BUFFER_SIZE)

epc_resume_inventory ==
  Send("epc_resume_inventory", NoArg, << PN5180_EPC_RESUME_INVENTORY, 0 >>, 1, 2)

load_rf_config(tx_config, rx_config) ==
  Send("load_rf_config", Arg(0, 0, tx_config, rx_config, <<0, 0>>),
       << PN5180_LOAD_RF_CONFIG, tx_config, rx_config >>, 2, 3)

rf_on(flags) ==
  Send("rf_on", Arg(0, 0, flags, 0, <<0, 0>>), << PN5180_RF_ON, flags >>, 1, 2)

rf_off ==
  Send("rf_off", NoArg, << PN5180_RF_OFF, 0 >>, 1, 2)

SendOnly ==
  { "write_register", "write_register_or_mask", "write_register_and_mask",
    "write_register_multiple", "write_eeprom", "write_tx_data", "send_data",
    "switch_mode", "epc_inventory", "epc_resume_inventory", "load_rf_config",
    "rf_on", "rf_off" }

\* A slip: a handshake that timed out is run once more.
return_send_status_retried ==
  /\ pc = "send_done" /\ cmd \in SendOnly
  /\ IF sret \in {-2, -3, -4} /\ waits <= 3
       THEN /\ send_spi_data_enter(frame)
            /\ UNCHANGED << retval, result, wire, miso, failed, nsswrites >>
       ELSE /\ Return(IF sret # 0 THEN sret ELSE 0, <<>>)
            /\ UNCHANGED << sret, clock, history >>
  /\ UNCHANGED << cmd, arg, frame, rx, pins, frontend, maxidx, smashed, prev >>

\* auto retval = send_spi_data(..); if (retval) return retval; return 0;
return_send_status ==
  /\ pc = "send_done" /\ cmd \in SendOnly
  /\ Return(IF sret # 0 THEN sret ELSE 0, <<>>)
  /\ UNCHANGED << cmd, arg, frame, rx, sret, pins, clock, frontend, history, maxidx,
                  smashed, prev >>


(***************************************************************************)
(* Commands that send and then receive.                                    *)
(***************************************************************************)
AfterSend(name) == pc = "send_done" /\ cmd = name
AfterRecv(name) == pc = "recv_done" /\ cmd = name
Kept == << cmd, arg, frame, pins, frontend, wire, miso, failed, nsswrites, maxidx,
           smashed, prev >>

\* uint8_t cmd[] = {PN5180_READ_REGISTER, addr};
read_register(addr) ==
  Send("read_register", Arg(0, 0, addr, 0, <<0, 0>>), << PN5180_READ_REGISTER, addr >>, 1, 2)

\* if (retval) { get<0>(result) = retval; return result; }  with get<1>(result)
\* never assigned: the host gets whatever the object held.
\* Otherwise recv_spi_data((uint8_t*)(&reg_value), 4).
read_register_after_send ==
  /\ AfterSend("read_register")
  /\ IF sret # 0
       THEN /\ \E v \in ValueSamples : Return(sret, v)
            /\ UNCHANGED << rx, sret, clock, ev, waits >>
       ELSE /\ recv_spi_data_enter(4)
            /\ UNCHANGED << sret, retval, result >>
  /\ UNCHANGED Kept

\* get<0>(result) = retval (0 on success); get<1>(result) = reg_value;
read_register_after_recv ==
  /\ AfterRecv("read_register")
  /\ Return(IF sret # 0 THEN sret ELSE 0, ValueOfBytes(rx))
  /\ UNCHANGED << rx, sret, clock, ev, waits >>
  /\ UNCHANGED Kept

\* The key[6] argument of mifare_authenticate.
Key(seed) == Vec(6, seed)
\* A slip: the block address is framed before the key type.
MifareCmd_block_first(seed, key_type, block_addr, uid) ==
  << PN5180_MIFARE_AUTHENTICATE >> \o Key(seed) \o << block_addr, key_type >> \o ValueBytes(uid)

MifareCmd(seed, key_type, block_addr, uid) ==
  << PN5180_MIFARE_AUTHENTICATE >> \o Key(seed) \o << key_type, block_addr >> \o ValueBytes(uid)

mifare_authenticate(seed, key_type, block_addr, uid) ==
  LET data == MifareCmd(seed, key_type, block_addr, uid)
  IN Send("mifare_authenticate", Arg(0, seed, key_type, block_addr, uid), data,
          Len(data) - 1, Len(data))

\* if (retval) return retval;  retval = recv_spi_data(&result, sizeof(result));
mifare_authenticate_after_send ==
  /\ AfterSend("mifare_authenticate")
  /\ IF sret # 0
       THEN /\ Return(sret, <<>>)
            /\ UNCHANGED << rx, sret, clock, ev, waits >>
       ELSE /\ recv_spi_data_enter(1)
            /\ UNCHANGED << sret, retval, result >>
  /\ UNCHANGED Kept

\* A slip: the status of recv_spi_data is not looked at.
mifare_authenticate_after_recv_unchecked ==
  /\ AfterRecv("mifare_authenticate")
  /\ Return(rx[1], <<>>)
  /\ UNCHANGED << rx, sret, clock, ev, waits >>
  /\ UNCHANGED Kept

\* if (retval) return retval;  return result;
mifare_authenticate_after_recv ==
  /\ AfterRecv("mifare_authenticate")
  /\ Return(IF sret # 0 THEN sret ELSE rx[1], <<>>)
  /\ UNCHANGED << rx, sret, clock, ev, waits >>
  /\ UNCHANGED Kept

epc_retrieve_inventory_result_size ==
  Send("epc_retrieve_inventory_result_size", NoArg,
       << PN5180_EPC_RETRIEVE_INVENTORY_RESULT_SIZE, 0 >>, 1, 2)

\* if (retval) return retval;  retval = recv_spi_data((uint8_t*)&result, sizeof(result));
epc_retrieve_inventory_result_size_after_send ==
  /\ AfterSend("epc_retrieve_inventory_result_size")
  /\ IF sret # 0
       THEN /\ Return(sret, <<>>)
            /\ UNCHANGED << rx, sret, clock, ev, waits >>
       ELSE /\ recv_spi_data_enter(2)
            /\ UNCHANGED << sret, retval, result >>
  /\ UNCHANGED Kept

\* if (retval) return retval;  return result;   (a uint16_t, as an int32_t)
epc_retrieve_inventory_result_size_after_recv ==
  /\ AfterRecv("epc_retrieve_inventory_result_size")
  /\ Return(IF sret # 0 THEN sret ELSE rx[1] + 256 * rx[2], <<>>)
  /\ UNCHANGED << rx, sret, clock, ev, waits >>
  /\ UNCHANGED Kept

\* buffer[0] = PN5180_READ_REGISTER_MULTIPLE; buffer[1 + i] = addrs[i];
ReadRegisterMultipleBuffer(n, seed) == << PN5180_READ_REGISTER_MULTIPLE >> \o Vec(n, seed)
read_register_multiple(n, seed) ==
  IF n > RRM_MAX_ADDRS
    THEN Reject("read_register_multiple", Arg(n, seed, 0, 0, <<0, 0>>), -1)
    ELSE Send("read_register_multiple", Arg(n, seed, 0, 0, <<0, 0>>),
              ReadRegisterMultipleBuffer(n, seed), n, RRM_BUFFER_SIZE)

\* if (retval) { get<0>(result) = retval; return result; }
\* retval = recv_spi_data(buffer, 4 * addrs.size);
read_register_multiple_after_send ==
  /\ AfterSend("read_register_multiple")
  /\ IF sret # 0
       THEN /\ Return(sret, <<>>)
            /\ UNCHANGED << rx, sret, clock, ev, waits >>
       ELSE /\ recv_spi_data_enter(4 * ArgN(arg))
            /\ UNCHANGED << sret, retval, result >>
  /\ UNCHANGED Kept

\* Object<int, Vector<T>> result;  get<1>(result)[i] = ...;  return result;
\* The vector of result is default-constructed, empty and without storage, and
\* the command never resizes it: the n stores through operator[] go to storage
\* the vector does not own (undefined behaviour when n > 0: the stores may be
\* lost or fault), and the vector handed to interface() still has size 0.
ReturnVector(status, n) ==
  /\ retval' = status
  /\ result' = <<>>
  /\ pc' \in (IF smashed \/ n > 0 THEN {"returned", "fault"} ELSE {"returned"})

\* buffer[i * 4 + 0] | (buffer[i * 4 + 1] << 8) | (buffer[i * 4 + 2] << 16) | (buffer[i * 4 + 3] << 24)
RegisterValues(buffer, n) == [i \in 1..n |-> ValueOfBytes(SubSeq(buffer, 4 * i - 3, 4 * i))]

\* if (retval) { get<0>(result) = retval; return result; }
\* for (i < addrs.size) get<1>(result)[i] = ...;  get<0>(result) is never
\* assigned on this path: the host gets whatever the object held.
read_register_multiple_after_recv ==
  /\ AfterRecv("read_register_multiple")
  /\ IF sret # 0
       THEN Return(sret, <<>>)
       ELSE \E status \in {0, -1} : ReturnVector(status, ArgN(arg))
  /\ UNCHANGED << rx, sret, clock, ev, waits >>
  /\ UNCHANGED Kept

\* uint8_t cmd[] = {PN5180_READ_EEPROM, addr, len};
read_eeprom(addr, len) ==
  Send("read_eeprom", Arg(len, 0, addr, 0, <<0, 0>>), << PN5180_READ_EEPROM, addr, len >>, 2, 3)

\* if (retval) { get<0>(result) = retval; return result; }
\* retval = recv_spi_data(response, len);
read_eeprom_after_send ==
  /\ AfterSend("read_eeprom")
  /\ IF sret # 0
       THEN /\ Return(sret, <<>>)
            /\ UNCHANGED << rx, sret, clock, ev, waits >>
       ELSE /\ recv_spi_data_enter(ArgN(arg))
            /\ UNCHANGED << sret, retval, result >>
  /\ UNCHANGED Kept

\* get<0>(result) = retval (0 on success); get<1>(result)[i] = response[i];
read_eeprom_after_recv ==
  /\ AfterRecv("read_eeprom")
  /\ ReturnVector(IF sret # 0 THEN sret ELSE 0, ArgN(arg))
  /\ UNCHANGED << rx, sret, clock, ev, waits >>
  /\ UNCHANGED Kept

\* A slip: len is not checked against the response buffer.
read_data_unchecked(len) ==
  Send("read_data", Arg(len, 0, 0, 0, <<0, 0>>), << PN5180_READ_DATA, 0 >>, 1, 2)

\* if (len > sizeof(response)) { get<0>(result) = -1; return result; }
\* uint8_t cmd[] = {PN5180_READ_DATA, 0x00};
read_data(len) ==
  IF len > READ_DATA_BUFFER_SIZE
    THEN Reject("read_data", Arg(len, 0, 0, 0, <<0, 0>>), -1)
    ELSE Send("read_data", Arg(len, 0, 0, 0, <<0, 0>>), << PN5180_READ_DATA, 0 >>, 1, 2)

\* A slip: the status of send_spi_data is not looked at before receiving.
read_data_after_send_unchecked ==
  /\ AfterSend("read_data")
  /\ recv_spi_data_enter(ArgN(arg))
  /\ UNCHANGED << sret, retval, result >>
  /\ UNCHANGED Kept

\* if (retval) { get<0>(result) = retval; return result; }
\* retval = recv_spi_data(response, len);
read_data_after_send ==
  /\ AfterSend("read_data")
  /\ IF sret # 0
       THEN /\ Return(sret, <<>>)
            /\ UNCHANGED << rx, sret, clock, ev, waits >>
       ELSE /\ recv_spi_data_enter(ArgN(arg))
            /\ UNCHANGED << sret, retval, result >>
  /\ UNCHANGED Kept

\* get<0>(result) = retval (0 on success); get<1>(result)[i] = response[i];
read_data_after_recv ==
  /\ AfterRecv("read_data")
  /\ ReturnVector(IF sret # 0 THEN sret ELSE 0, ArgN(arg))
  /\ UNCHANGED << rx, sret, clock, ev, waits >>
  /\ UNCHANGED Kept

(***************************************************************************)
(* Commands that do not use the bus.                                       *)
(***************************************************************************)
\* digitalWrite(PN5180_RST, LOW); delay(10); digitalWrite(PN5180_RST, HIGH); delay(50);
reset ==
  /\ Begin("reset", NoArg)
  /\ pc' = "returned"
  /\ UNCHANGED << frame, maxidx, smashed, ev, waits, sret, retval, result, clock >>


\* return digitalRead(PN5180_IRQ);
is_irq_set ==
  /\ Begin("is_irq_set", NoArg)
  /\ ev' = << IF irq = HIGH THEN "IH" ELSE "IL" >>
  /\ retval' = irq
  /\ pc' = "returned"
  /\ UNCHANGED << frame, maxidx, smashed, waits, sret, result, clock >>

\* wait_for_irq(timeout): auto start = millis();
wait_for_irq(timeout) ==
  /\ Begin("wait_for_irq", Arg(timeout, 0, 0, 0, <<0, 0>>))
  /\ pc' = "irq_loop"
  /\ start' = now
  /\ UNCHANGED << frame, maxidx, smashed, ev, waits, sret, retval, result, now, wval, seen,
                  wres, wpc >>

\* while ((millis() - start) <= timeout) { if (is_irq_set()) return true; yield(); }
\* dt is the time that passed since the previous evaluation of the condition.
\* The history keeps the first two samples that found IRQ clear and every
\* sample that found it set.
wait_for_irq_loop(dt) ==
  /\ pc = "irq_loop"
  /\ now' = (now + dt) % ClockMod
  /\ IF WithinTimeout(now', start, ArgN(arg))
       THEN /\ ev' = IF irq = HIGH THEN Append(ev, "IH")
                    ELSE IF Len(ev) < 2 THEN Append(ev, "IL") ELSE ev
            /\ IF irq = HIGH
                 THEN retval' = 1 /\ pc' = "returned"
                 ELSE UNCHANGED << retval, pc >>
       ELSE /\ pc' = "irq_final"
            /\ UNCHANGED << ev, retval >>
  /\ UNCHANGED << wpc, cmd, arg, frame, rx, sret, result, pins, start, wval, seen, wres,
                  frontend, wire, miso, waits, failed, nsswrites, maxidx, smashed, prev >>

\* A slip: after the timeout the pin is sampled but false is returned.
wait_for_irq_final_false ==
  /\ pc = "irq_final"
  /\ retval' = 0
  /\ ev' = Append(ev, IF irq = HIGH THEN "IH" ELSE "IL")
  /\ pc' = "returned"
  /\ UNCHANGED << wpc, cmd, arg, frame, rx, sret, result, pins, now, start, wval, seen, wres,
                  frontend, wire, miso, waits, failed, nsswrites, maxidx, smashed, prev >>

\* return is_irq_set();
wait_for_irq_final ==
  /\ pc = "irq_final"
  /\ retval' = irq
  /\ ev' = Append(ev, IF irq = HIGH THEN "IH" ELSE "IL")
  /\ pc' = "returned"
  /\ UNCHANGED << wpc, cmd, arg, frame, rx, sret, result, pins, now, start, wval, seen, wres,
                  frontend, wire, miso, waits, failed, nsswrites, maxidx, smashed, prev >>

(***************************************************************************)
(* The front-end's pins.                                                   *)
(***************************************************************************)
\* Whether BUSY has been at the level of the running wait, given its new
\* level: a change made while the loop of wait_busy_is is still inside its
\* bound falls within the bound, one made after the loop was left comes late.
BusySeen(level) ==
  IF level # wval \/ seen = "within" THEN seen
  ELSE IF wpc = "loop" THEN "within"
  ELSE IF wpc = "final" THEN "late"
  ELSE seen

\* A front-end of which nothing is known changes BUSY whenever it likes.
frontend_busy_free ==
  /\ fe = "free"
  /\ wpc \in {"loop", "final"}
  /\ busy' = 1 - busy
  /\ seen' = BusySeen(busy')
  /\ UNCHANGED << pc, wpc, cmd, arg, frame, rx, sret, retval, result, nss, irq, now,
                  start, wval, wres, frontend, history, maxidx, smashed, prev >>

\* The simulated front-end follows the handshake: BUSY goes high once a
\* transfer was made under select, and low once select is released.
frontend_busy_sim ==
  /\ fe = "sim"
  /\ busy # SimBusyTarget
  /\ busy' = SimBusyTarget
  /\ seen' = BusySeen(busy')
  /\ UNCHANGED << pc, wpc, cmd, arg, frame, rx, sret, retval, result, nss, irq, now,
                  start, wval, wres, frontend, history, maxidx, smashed, prev >>

\* The front-end sets and clears IRQ whenever it likes.
frontend_irq ==
  /\ pc \in {"irq_loop", "irq_final"}
  /\ irq' = 1 - irq
  /\ UNCHANGED << pc, wpc, cmd, arg, frame, rx, sret, retval, result, nss, busy, now,
                  start, wval, seen, wres, frontend, history, maxidx, smashed, prev >>

(***************************************************************************)
(* loop()                                                                  *)
(***************************************************************************)
\* interface() writes the command's result to the serial link and loop()
\* comes round to wait for the next call; the command's locals are gone.
interface_reply ==
  /\ pc = "returned"
  /\ pc' = "idle"
  /\ prev' = IF fe = "sim" THEN << cmd, arg, retval >> ELSE prev
  /\ cmd' = "none" /\ arg' = NoArg /\ frame' = <<>> /\ rx' = <<>>
  /\ sret' = 0 /\ retval' = 0 /\ result' = <<>>
  /\ start' = 0 /\ wval' = LOW /\ seen' = "never" /\ wres' = FALSE
  /\ ev' = <<>> /\ wire' = <<>> /\ miso' = <<>> /\ waits' = 0 /\ failed' = {}
  /\ nsswrites' = 0 /\ maxidx' = -1 /\ smashed' = FALSE
  /\ UNCHANGED << wpc, pins, now, frontend >>

(***************************************************************************)
(* Specifications.                                                         *)
(***************************************************************************)
\* interface(): the host calls one of the bus commands.
BusCommand ==
  \/ \E addr \in AddrSamples, value \in ValueSamples : write_register(addr, value)
  \/ \E addr \in AddrSamples, value \in ValueSamples : write_register_or_mask(addr, value)
  \/ \E addr \in AddrSamples, value \in ValueSamples : write_register_and_mask(addr, value)
  \/ \E n \in WrmSizes, seed \in Seeds : write_register_multiple(n, seed)
  \/ \E addr \in AddrSamples : read_register(addr)
  \/ \E n \in Sizes(RRM_MAX_ADDRS), seed \in Seeds : read_register_multiple(n, seed)
  \/ \E addr \in AddrSamples, n \in Sizes(WRITE_EEPROM_MAX), seed \in Seeds : write_eeprom(addr, n, seed)
  \/ \E addr \in AddrSamples, len \in Sizes(READ_EEPROM_BUFFER_SIZE) \cap Byte : read_eeprom(addr, len)
  \/ \E n \in WriteTxSizes, seed \in Seeds : write_tx_data(n, seed)
  \/ \E n \in SendDataSizes, seed \in Seeds : send_data(7, n, seed)
  \/ \E len \in Sizes(READ_DATA_BUFFER_SIZE) : read_data(len)
  \/ \E mode \in 0..2, n \in 0..(SWITCH_MODE_MAX_PARAMS + Slack) : switch_mode(mode, n, 0)
  \/ \E key_type \in {96, 97}, uid \in ValueSamples : mifare_authenticate(160, key_type, 4, uid)
  \/ \E n \in Sizes(EPC_MAX_SELECT), seed \in Seeds : epc_inventory(n, seed, 5, 1)
  \/ epc_resume_inventory
  \/ epc_retrieve_inventory_result_size
  \/ \E tx_config \in {0, 13} : load_rf_config(tx_config, tx_config + 128)
  \/ \E flags \in {0, 3} : rf_on(flags)
  \/ rf_off

\* The steps of the commands up to the first busy check of send_spi_data.
SendStart ==
  \/ \E dt \in 0..1 : wait_busy_is_loop(dt)
  \/ wait_busy_is_final
  \/ send_spi_data_first_check
  \/ return_send_status
  \/ read_register_after_send
  \/ read_register_multiple_after_send
  \/ read_eeprom_after_send
  \/ read_data_after_send
  \/ mifare_authenticate_after_send
  \/ epc_retrieve_inventory_result_size_after_send

\* The steps of the commands past the first busy check of send_spi_data.
SendRest ==
  \/ send_spi_data_transfer
  \/ send_spi_data_second_check
  \/ send_spi_data_third_check

Recv ==
  \/ recv_spi_data_first_check
  \/ recv_spi_data_transfer
  \/ recv_spi_data_second_check
  \/ recv_spi_data_third_check
  \/ read_register_after_recv
  \/ read_register_multiple_after_recv
  \/ read_eeprom_after_recv
  \/ read_data_after_recv
  \/ mifare_authenticate_after_recv
  \/ epc_retrieve_inventory_result_size_after_recv

\* The firmware on a front-end of which nothing is known.
Init == InitFirmware /\ fe = "free" /\ busy \in {LOW, HIGH} /\ irq = LOW
Next ==
  BusCommand \/ reset \/ SendStart \/ SendRest \/ Recv \/ interface_reply \/ frontend_busy_free
Spec == Init /\ [][Next]_vars


\* The firmware on a front-end that holds BUSY high for ever.  The firmware
\* keeps running and millis() keeps counting; the host may stop calling.
InitStuck == InitFirmware /\ fe = "stuck" /\ busy = HIGH /\ irq = LOW
NextStuck == BusCommand \/ SendStart \/ interface_reply
FirmwareRuns ==
  /\ WF_vars(wait_busy_is_loop(1))
  /\ WF_vars(wait_for_irq_loop(1))
  /\ WF_vars(wait_busy_is_final \/ wait_for_irq_final \/ send_spi_data_first_check
               \/ SendRest \/ Recv \/ return_send_status \/ interface_reply)
  /\ WF_vars(read_register_after_send \/ read_register_multiple_after_send
               \/ read_eeprom_after_send \/ read_data_after_send
               \/ mifare_authenticate_after_send
               \/ epc_retrieve_inventory_result_size_after_send)
SpecStuck == InitStuck /\ [][NextStuck]_vars /\ FirmwareRuns

\* The firmware on the simulated front-end: register writes and reads.
InitSim == InitFirmware /\ fe = "sim" /\ busy = LOW /\ irq = LOW
NextSim ==
  \/ \E addr \in AddrSamples, value \in ValueSamples : write_register(addr, value)
  \/ \E addr \in AddrSamples : read_register(addr)
  \/ \E dt \in 0..1 : wait_busy_is_loop(dt)
  \/ send_spi_data_first_check
  \/ SendRest
  \/ return_send_status
  \/ read_register_after_send
  \/ recv_spi_data_first_check
  \/ recv_spi_data_transfer
  \/ recv_spi_data_second_check
  \/ recv_spi_data_third_check
  \/ read_register_after_recv
  \/ interface_reply
  \/ frontend_busy_sim
SpecSim == InitSim /\ [][NextSim]_vars

\* The polling loops: wait_for_irq with every timeout, is_irq_set, and
\* wait_busy_is under rf_off, on a front-end of which nothing is known.
InitPoll == InitFirmware /\ fe = "free" /\ busy \in {LOW, HIGH} /\ irq \in {LOW, HIGH}
NextPoll ==
  \/ \E timeout \in 0..ULONG_MAX : wait_for_irq(timeout)
  \/ \E dt \in 0..1 : wait_for_irq_loop(dt)
  \/ wait_for_irq_final
  \/ is_irq_set
  \/ rf_off
  \/ \E dt \in 0..1 : wait_busy_is_loop(dt)
  \/ wait_busy_is_final
  \/ send_spi_data_first_check
  \/ SendRest
  \/ return_send_status
  \/ interface_reply
  \/ frontend_busy_free
  \/ frontend_irq
SpecPoll == InitPoll /\ [][NextPoll]_vars /\ FirmwareRuns

\* The firmware on a compliant front-end that runs concurrently with the
\* polling: BUSY reaches the level the handshake waits for within the bound
\* of the wait, possibly only after the last look the loop takes inside the
\* bound, so that the sample after the loop decides.
NextCompliant == NextSim \/ wait_busy_is_final
SpecCompliant ==
  InitSim /\ [][NextCompliant]_vars /\ FirmwareRuns /\ WF_vars(frontend_busy_sim)


(***************************************************************************)
(* Properties.                                                             *)
(***************************************************************************)
Returned(name) == pc = "returned" /\ cmd = name
PrevCmd == prev[1]
PrevArg == prev[2]
PrevRetval == prev[3]
HandshakeDone == pc \in {"send_done", "recv_done"}
Positions(e) == { i \in 1..Len(ev) : ev[i] = e }

\* C1: in send_spi_data and recv_spi_data select is driven low only right
\* after a wait that sampled BUSY low in the same call, and a call that
\* returns 0 went through: BUSY sampled low, select asserted, bytes
\* transferred, BUSY sampled high, select released, BUSY sampled low.
C1_HandshakeOrder ==
  /\ \A i \in Positions("SEL") : i > 1 /\ ev[i - 1] = "BL"
  /\ nss = LOW => Positions("SEL") # {}
  /\ HandshakeDone /\ sret = 0 => ev = << "BL", "SEL", "XFER", "BH", "DESEL", "BL" >>
C1_Witness ==
  /\ pc = "recv_done" /\ sret = 0
  /\ ev = << "BL", "SEL", "XFER", "BH", "DESEL", "BL" >>

\* C2 as claimed: whenever select is released after having been asserted,
\* BUSY has been observed high and then low since the assertion.
C2_ReleasedAfterHighThenLow ==
  \A i \in Positions("DESEL") :
    \E j, k \in 1..Len(ev) : j < k /\ k < i /\ ev[j] = "BH" /\ ev[k] = "BL"
                             /\ \E sel \in Positions("SEL") : sel < j
\* C2 as amended: select is released when the wait for BUSY high that
\* follows the transfer has ended, with BUSY observed high or with the bound
\* expired, and before BUSY is waited low again; a handshake that returns 0
\* observed BUSY high before the release and low after it.
C2_ReleasedAfterHighWait ==
  /\ \A i \in Positions("DESEL") :
       /\ i = 5
       /\ SubSeq(ev, 2, 3) = << "SEL", "XFER" >>
       /\ ev[4] \in {"BH", "TO"}
       /\ Len(ev) > 5 => Len(ev) = 6 /\ ev[4] = "BH" /\ ev[6] \in {"BL", "TO"}
  /\ HandshakeDone /\ sret = 0 => ev[4] = "BH" /\ ev[5] = "DESEL" /\ ev[6] = "BL"
C2_Witness ==
  /\ pc = "send_check3" /\ nss = HIGH
  /\ ev = << "BL", "SEL", "XFER", "BH", "DESEL" >>

\* C3: while BUSY never goes low, every bus command comes back with a
\* negative status after at most one busy wait, without asserting select
\* and without an SPI transfer, and no command hangs.
C3_StuckBusyTimesOut ==
  /\ [](pc = "returned" => /\ retval < 0
                           /\ waits <= 1
                           /\ nsswrites = 0 /\ nss = HIGH
                           /\ wire = <<>> /\ miso = <<>>)
  /\ (pc \notin {"idle", "returned"}) ~> (pc = "returned")

\* C4: wait_for_irq returns for every timeout and every behaviour of the
\* IRQ pin, and wait_busy_is always returns.
C4_WaitsReturn ==
  /\ (pc = "irq_loop") ~> (pc = "returned")
  /\ (wpc = "loop") ~> (wpc = "ret")

\* C5: a command whose parameter exceeds its size limit returns -1 without
\* waiting, without touching the select line and without any SPI transfer.
C5_Oversize ==
  \/ cmd = "write_register_multiple" /\ ArgN(arg) > 42
  \/ cmd = "read_register_multiple" /\ ArgN(arg) > 18
  \/ cmd = "write_eeprom" /\ ArgN(arg) > 255
  \/ cmd \in {"write_tx_data", "send_data"} /\ ArgN(arg) > 260
  \/ cmd = "read_data" /\ ArgN(arg) > 508
  \/ cmd = "epc_inventory" /\ ArgN(arg) > 39
  \/ cmd = "switch_mode" /\ ArgN(arg) > 4
C5_OversizeRejected ==
  C5_Oversize =>
    /\ pc = "returned" /\ retval = -1
    /\ nsswrites = 0 /\ nss = HIGH
    /\ wire = <<>> /\ miso = <<>> /\ waits = 0
C5_Witness == Returned("read_data") /\ ArgN(arg) = 509 /\ retval = -1

\* C6: write_tx_data with a payload of 0 to 260 bytes, on a front-end that
\* completes every phase of the handshake, transfers the one frame
\* 0x08, payload and returns 0.
C6_WriteTxUpTo260 ==
  Returned("write_tx_data") /\ ArgN(arg) <= 260 /\ failed = {} =>
    /\ retval = 0
    /\ wire = << << 8 >> \o Vec(ArgN(arg), ArgSeed(arg)) >>

\* C7: send_data with a payload of 0 to 260 bytes, on a front-end that
\* completes every phase of the handshake, transfers the one frame
\* 0x09, bits, payload and returns 0.
C7_SendDataUpTo260 ==
  Returned("send_data") /\ ArgN(arg) <= 260 /\ failed = {} =>
    /\ retval = 0
    /\ wire = << << 9, ArgA(arg) >> \o Vec(ArgN(arg), ArgSeed(arg)) >>

\* The frame of C8 for the elements i .. n - 1 of the list.
RECURSIVE C8_Entries(_, _, _)
C8_Entries(i, n, seed) ==
  IF i >= n THEN <<>>
  ELSE LET e == Element(i, seed)
       IN << e.addr, e.op, e.value[2] % 256, e.value[2] \div 256,
             e.value[1] % 256, e.value[1] \div 256 >> \o C8_Entries(i + 1, n, seed)
\* C8: write_register_multiple with 0 to 42 entries builds the frame 0x03,
\* then address, operation and value (least-significant byte first) per
\* entry, 1 + 6n bytes, writes every byte of it inside its buffer of 211
\* bytes, and transfers nothing else.
C8_WrmUpTo42 ==
  cmd = "write_register_multiple" /\ ArgN(arg) <= 42 =>
    /\ maxidx < 211
    /\ Len(frame) = 1 + 6 * ArgN(arg)
    /\ frame = << 3 >> \o C8_Entries(0, ArgN(arg), ArgSeed(arg))
    /\ wire \in { <<>>, << frame >> }

\* C9: on the simulated front-end, write_register(addr, v) followed by
\* read_register(addr) returns status 0 and the value v.
C9_WriteThenRead ==
  Returned("read_register") /\ PrevCmd = "write_register" /\ ArgA(PrevArg) = ArgA(arg) =>
    /\ PrevRetval = 0
    /\ retval = 0
    /\ result = ArgV(PrevArg)
C9_Witness ==
  /\ Returned("read_register") /\ PrevCmd = "write_register" /\ ArgA(PrevArg) = ArgA(arg)
  /\ result = << 65535, 65534 >>

\* C10: mifare_authenticate returns a negative value exactly when a phase
\* of its send or receive handshake failed, and otherwise the status byte
\* the front-end sent; it never returns 0 after a failed phase.
C10_MifareStatus ==
  Returned("mifare_authenticate") =>
    /\ retval < 0 <=> failed # {}
    /\ failed = {} => Len(miso) = 1 /\ retval = miso[1][1]
    /\ failed # {} => retval # 0
C10_Witness ==
  /\ Returned("mifare_authenticate") /\ failed = {}
  /\ miso = << << 1 >> >> /\ retval = 1

\* C11: write_eeprom(addr, values) transfers the frame 0x06, addr, values, so
\* the frame names the address the values go to.
C11_WriteEepromFrame ==
  cmd = "write_eeprom" /\ wire # <<>> =>
    wire = << << 6, ArgA(arg) >> \o Vec(ArgN(arg), ArgSeed(arg)) >>

\* The 32-bit value of four received bytes, least-significant byte first.
C12_Value(b, i) == << b[4 * i - 1] + 256 * b[4 * i], b[4 * i - 3] + 256 * b[4 * i - 2] >>
\* C12: a read command that returns status 0 returns as many elements as
\* were requested, each made of the bytes received from the front-end:
\* read_eeprom and read_data the len bytes received, read_register_multiple
\* one value per address, in order, least-significant byte first.
C12_ReadsReturnRequested ==
  /\ pc = "returned" /\ cmd \in {"read_eeprom", "read_data"} /\ retval = 0 =>
       /\ Len(result) = ArgN(arg)
       /\ result = miso[1]
  /\ Returned("read_register_multiple") /\ retval = 0 =>
       /\ Len(result) = ArgN(arg)
       /\ \A i \in 1..ArgN(arg) : result[i] = C12_Value(miso[1], i)

\* C13: within one call of a command its frame is transferred over SPI at
\* most once and a reply is read at most once, whatever the busy waits did;
\* each handshake is run once, so the call makes at most six busy waits.
C13_NoRetry ==
  /\ Len(wire) <= 1 /\ Len(miso) <= 1
  /\ wire # <<>> => wire = << frame >>
  /\ miso # <<>> => wire # <<>>
  /\ waits <= 6 /\ nsswrites <= 4
C13_Witness ==
  /\ pc = "returned" /\ retval = -4 /\ "send3" \in failed
  /\ wire = << frame >> /\ waits = 3

Readers ==
  { "read_register", "read_register_multiple", "read_eeprom", "read_data",
    "mifare_authenticate", "epc_retrieve_inventory_result_size" }
SendFailed == failed \cap {"send1", "send2", "send3"} # {}
InRecv == pc \in {"recv_check1", "recv_xfer", "recv_check2", "recv_check3", "recv_done"}
\* C14: in a command that reads a reply the receive handshake runs only
\* after the frame was transferred and all three busy checks of the send
\* handshake succeeded; when a check of the send handshake failed, nothing
\* is received, select is not asserted again and the status is negative.
C14_NoOverlap ==
  /\ InRecv =>
       /\ cmd \in Readers /\ ~SendFailed
       /\ wire = << frame >> /\ waits >= 4 /\ nsswrites >= 2
  /\ cmd \in Readers /\ SendFailed =>
       /\ ~InRecv /\ miso = <<>>
       /\ waits <= 3 /\ nsswrites <= 2
       /\ pc = "returned" => retval < 0
C14_Witness ==
  /\ Returned("read_data") /\ "send2" \in failed
  /\ retval = -3 /\ miso = <<>> /\ nsswrites = 2

SizeLimited ==
  { "write_register_multiple", "read_register_multiple", "write_eeprom", "write_tx_data",
    "send_data", "read_data", "epc_inventory", "switch_mode" }
\* C15: a command with a size limit, which returns -1 for an oversize
\* parameter, never returns -1 when a busy wait of its send or receive
\* handshake timed out.
C15_TimeoutIsNotOversize ==
  pc = "returned" /\ cmd \in SizeLimited /\ failed # {} => retval # -1

\* C16: wait_for_irq returns true only when its last sample of the IRQ pin
\* found it set, and false only when every sample found it clear, the last
\* of them taken after the timeout had elapsed; it samples the pin at least
\* once, also with timeout 0.  is_irq_set returns the level of the pin from
\* one sample, without waiting.
C16_IrqStatus ==
  /\ Returned("wait_for_irq") =>
       /\ Len(ev) >= 1
       /\ retval \in {0, 1}
       /\ retval = 1 => ev[Len(ev)] = "IH"
       /\ retval = 0 => /\ \A i \in 1..Len(ev) : ev[i] = "IL"
                        /\ ~WithinTimeout(now, start, ArgN(arg))
  /\ Returned("is_irq_set") =>
       /\ retval = irq
       /\ ev = << IF irq = HIGH THEN "IH" ELSE "IL" >>
       /\ waits = 0
C16_Witness ==
  /\ Returned("wait_for_irq") /\ ArgN(arg) = 0
  /\ retval = 1 /\ ev = << "IL", "IH" >>
  /\ ~WithinTimeout(now, start, 0)

\* C17: select is released on every exit path: NSS is high whenever
\* send_spi_data or recv_spi_data has returned, with 0 or with an error
\* code, and whenever the firmware waits for the next call or hands back a
\* result.
C17_SelectReleased ==
  pc \in {"idle", "send_done", "recv_done", "returned"} => nss = HIGH
C17_Witness ==
  /\ pc = "recv_done" /\ sret = -2 /\ nss = HIGH
  /\ ev = << "BL", "SEL", "XFER", "TO", "DESEL" >>

\* C18: the result of a handshake names its first failing phase, and the
\* phases after it are skipped.  send_spi_data returns 0 exactly when all
\* three busy checks succeeded, -2 when the first failed (nothing else
\* done), -3 when the second failed (select released, no third wait), -4
\* when only the third failed, and -1 exactly when the frame is longer than
\* 256 bytes; recv_spi_data returns 0, -1, -2, -3 for its three checks.
C18_Phases(first, second, third) ==
  /\ sret = 0 <=> ev = << "BL", "SEL", "XFER", "BH", "DESEL", "BL" >>
  /\ sret = first <=> ev = << "TO" >>
  /\ sret = second <=> ev = << "BL", "SEL", "XFER", "TO", "DESEL" >>
  /\ sret = third <=> ev = << "BL", "SEL", "XFER", "BH", "DESEL", "TO" >>
C18_FirstFailingPhase ==
  /\ pc = "send_done" =>
       /\ sret \in {0, -1, -2, -3, -4}
       /\ sret = -1 <=> Len(frame) > 256
       /\ sret = -1 <=> ev = <<>>
       /\ C18_Phases(-2, -3, -4)
  /\ pc = "recv_done" =>
       /\ sret \in {0, -1, -2, -3}
       /\ C18_Phases(-1, -2, -3)
C18_Witness ==
  /\ pc = "send_done" /\ sret = -4
  /\ ev = << "BL", "SEL", "XFER", "BH", "DESEL", "TO" >>

\* The declared length of the local buffer a command fills.
C19_Declared(name) ==
  CASE name = "write_register_multiple" -> 211
    [] name = "read_register_multiple" -> 211
    [] name = "write_eeprom" -> 256
    [] name = "write_tx_data" -> 261
    [] name = "send_data" -> 262
    [] name = "read_eeprom" -> 255
    [] name = "read_data" -> 508
    [] name = "switch_mode" -> 6
    [] name = "epc_inventory" -> 47
    [] OTHER -> Len(frame)
\* C19: for every command and every input that passes the command's size
\* check, every write into the command's frame or response buffer, and the
\* copy made by send_spi_data, is at an index below the buffer's declared
\* length.
C19_WritesInBounds ==
  /\ cmd \notin {"read_eeprom", "read_data"} => maxidx < C19_Declared(cmd)
  /\ pc \in {"send_check1", "send_xfer", "send_check2", "send_check3"} => Len(frame) <= 256
  /\ InRecv /\ cmd \in {"read_register_multiple", "read_eeprom", "read_data"} =>
       Len(rx) <= C19_Declared(cmd)

\* C20: against a compliant front-end, under every interleaving of its
\* changes of BUSY with the firmware's polling, every call of send_spi_data
\* and of recv_spi_data returns, and returns 0.
C20_CompliantProgress ==
  /\ [](pc \in {"send_done", "recv_done"} => sret = 0)
  /\ (pc = "send_check1") ~> (pc = "send_done")
  /\ (pc = "recv_check1") ~> (pc = "recv_done")
C20_Witness ==
  /\ pc = "recv_done" /\ sret = 0 /\ waits = 6
  /\ ~WithinTimeout(now, start, DefaultTimeout)

\* C22 as stated: wait_busy_is returns false whenever BUSY was not at the
\* requested level at any time inside the 800 ms bound of the call.
C22_FalseUnlessSeenInBound ==
  (wpc = "ret" /\ seen # "within") => ~wres

\* C22: wait_busy_is returns false whenever BUSY was not at the requested
\* level at any time during the whole call, whose last sample of BUSY is taken
\* after the 800 ms bound has passed; it returns true exactly when the sample
\* it ends with finds the level, and false only once the bound has passed.
C22_FalseWhenNeverSeen ==
  wpc = "ret" =>
    /\ seen = "never" => ~wres
    /\ wres <=> busy = wval
    /\ ~wres => ~WithinTimeout(now, start, DefaultTimeout)

\* A wait during which BUSY never was at the level has returned false.
C22_Witness ==
  wpc = "ret" /\ seen = "never" /\ ~wres /\ ev # <<>> /\ ev[Len(ev)] = "TO"

\* C21: when send_spi_data returns -1 or -2 no byte of the frame was
\* transferred, and when it returns -3 or -4 the complete frame was
\* transferred exactly once, so that a command that only sends can return a
\* negative status although the front-end received its frame.
C21_SendTransferred ==
  /\ pc = "send_done" =>
       /\ sret \in {-1, -2} => wire = <<>>
       /\ sret \in {-3, -4} => wire = << frame >>
  /\ (pc = "returned" /\ cmd \in SendOnly) =>
       /\ retval \in {-1, -2} => wire = <<>>
       /\ retval \in {-3, -4} => wire = << frame >>

\* rf_off returned -4 and its whole frame went over the bus once.
C21_Witness ==
  /\ Returned("rf_off") /\ retval = -4
  /\ wire = << << PN5180_RF_OFF, 0 >> >>

\* The byte of weight 256^k of a 32-bit value kept as its two 16-bit halves,
\* the upper one first.
C23_ByteOf(value, k) ==
  LET half == IF k < 2 THEN value[2] ELSE value[1]
  IN IF k \in {0, 2} THEN half % 256 ELSE half \div 256
C23_Opcode(name) ==
  IF name = "write_register" THEN 0 ELSE IF name = "write_register_or_mask" THEN 1 ELSE 2
C23_Writes == { "write_register", "write_register_or_mask", "write_register_and_mask" }

\* C23: write_register, write_register_or_mask and write_register_and_mask
\* each transmit exactly one 6-byte frame, the opcode 0x00, 0x01 or 0x02, the
\* address and the 32-bit value least-significant byte first, and return 0
\* exactly when the send handshake returned 0, otherwise its code unchanged.
C23_RegisterWriteFrame ==
  cmd \in C23_Writes =>
    LET v == ArgV(arg)
        expected == << C23_Opcode(cmd), ArgA(arg), C23_ByteOf(v, 0), C23_ByteOf(v, 1),
                       C23_ByteOf(v, 2), C23_ByteOf(v, 3) >>
    IN /\ wire \in { <<>>, << expected >> }
       /\ pc \notin {"idle", "fault"}
       /\ pc \in {"send_xfer", "send_check2", "send_check3"} => frame = expected
       /\ pc \in {"send_check2", "send_check3"} => wire = << expected >>
       /\ pc = "returned" =>
            /\ retval = sret
            /\ retval \in {0, -2, -3, -4}
            /\ retval \in {0, -3, -4} <=> wire = << expected >>

\* An AND-mask write of 0xFFFFFFFE to register 37 returned 0 with its frame
\* on the bus.
C23_Witness ==
  /\ Returned("write_register_and_mask") /\ retval = 0 /\ sret = 0
  /\ wire = << << 2, 37, 254, 255, 255, 255 >> >>

\* The frame C24 describes for the arguments of the running command.
C24_Expected ==
  LET v == ArgV(arg)
      k == ArgSeed(arg)
  IN << 12, (k + 1) % 256, (k + 2) % 256, (k + 3) % 256, (k + 4) % 256, (k + 5) % 256,
        (k + 6) % 256, ArgA(arg), ArgB(arg), C23_ByteOf(v, 0), C23_ByteOf(v, 1),
        C23_ByteOf(v, 2), C23_ByteOf(v, 3) >>

\* C24: mifare_authenticate transmits exactly one 13-byte frame, 0x0C, the
\* six key bytes in order, key_type, block_addr and the uid least-significant
\* byte first, and then reads exactly one status byte.
C24_MifareFrame ==
  cmd = "mifare_authenticate" =>
    /\ Len(C24_Expected) = 13
    /\ wire \in { <<>>, << C24_Expected >> }
    /\ Len(miso) <= 1
    /\ miso # <<>> => (Len(miso[1]) = 1 /\ wire = << C24_Expected >>)
    /\ InRecv => (wire = << C24_Expected >> /\ Len(rx) = 1)
    /\ (pc = "returned" /\ retval >= 0) =>
         (wire = << C24_Expected >> /\ Len(miso) = 1 /\ retval = miso[1][1])

\* An authentication with key B, block 4 and uid 0x01020304 returned the
\* status byte it read after its frame went over the bus.
C24_Witness ==
  /\ Returned("mifare_authenticate") /\ retval = 1
  /\ wire = << << 12, 161, 162, 163, 164, 165, 166, 97, 4, 4, 3, 2, 1 >> >>
  /\ miso = << << 1 >> >>

\* C26: epc_inventory frames a select command of n bytes, n in 0..39, as
\* 0x0D, n, then only when n > 0 the final-bits byte followed by the n select
\* bytes, then the three begin_round bytes and the timeslot byte: 6 bytes
\* when n = 0 and n + 7 bytes otherwise.
C26_EpcFrame ==
  (cmd = "epc_inventory" /\ wire # <<>>) =>
    LET n == ArgN(arg)
        k == ArgSeed(arg)
        f == wire[1]
        body == IF n = 0 THEN 2 ELSE n + 3
    IN /\ Len(wire) = 1 /\ f = frame
       /\ n \in 0..39
       /\ Len(f) = (IF n = 0 THEN 6 ELSE n + 7)
       /\ f[1] = 13 /\ f[2] = n
       /\ n > 0 => f[3] = ArgA(arg)
       /\ \A i \in 1..n : f[3 + i] = (k + i) % 256
       /\ \A j \in 1..3 : f[body + j] = (k + 40 + j) % 256
       /\ f[body + 4] = ArgB(arg)
       /\ Len(f) = body + 4

\* An inventory with a 39-byte select command went over the bus as 46 bytes
\* and returned 0.
C26_Witness ==
  /\ Returned("epc_inventory") /\ retval = 0
  /\ ArgN(arg) = 39 /\ Len(wire) = 1 /\ Len(wire[1]) = 46
  /\ SubSeq(wire[1], 1, 4) = << 13, 39, 5, (ArgSeed(arg) + 1) % 256 >>
  /\ SubSeq(wire[1], 43, 46) = << (ArgSeed(arg) + 41) % 256, (ArgSeed(arg) + 42) % 256,
                                  (ArgSeed(arg) + 43) % 256, 1 >>

\* The length of the parameter block documented for a mode of switch_mode.
C25_BlockLen(mode) == IF mode = 0 THEN 3 ELSE IF mode = 1 THEN 2 ELSE 4

\* C25: every frame switch_mode transmits carries the parameter block
\* documented for its mode, 3 bytes for mode 0, 2 bytes for mode 1 and 4 bytes
\* for mode 2, as opcode 0x0B, mode, then the parameter bytes in order.
C25_DocumentedBlock ==
  (cmd = "switch_mode" /\ wire # <<>>) =>
    LET f == wire[1]
    IN /\ Len(f) = 2 + C25_BlockLen(ArgA(arg))
       /\ f[1] = 11 /\ f[2] = ArgA(arg)
       /\ \A i \in 1..(Len(f) - 2) : f[2 + i] = (ArgSeed(arg) + i) % 256

\* The commands C27 names, at their return after a busy check timed out.
C27_Commands ==
  { "read_register", "read_register_multiple", "read_eeprom", "read_data",
    "mifare_authenticate" }
C27_FailedReturn == pc = "returned" /\ cmd \in C27_Commands /\ failed # {}

\* C27: the negative status of a command that sends and then
\* receives identifies the handshake and the phase that failed, no value
\* being produced both by a failing send phase and by a failing receive
\* phase: the codes -2, -3 and -4 of the three send phases are returned only
\* when that send phase failed.
C27_StatusNamesPhase ==
  C27_FailedReturn =>
    /\ retval = -2 => failed = {"send1"}
    /\ retval = -3 => failed = {"send2"}
    /\ retval = -4 => failed = {"send3"}

=============================================================================
